---- MODULE Spec2Model ----
(***************************************************************************)
(* A model of lib/lz4g.c: the framed-stream encode/decode engine built on  *)
(* the LZ4 block codec and the LZ4F streaming frame codec.                 *)
(*                                                                         *)
(* Files are sequences of bytes.  32-bit unsigned values are kept as two   *)
(* 16-bit limbs [hi, lo], so that every value a 4-byte field can hold is   *)
(* represented.  The buffer sizes of the program (256 KB, 64 KB, 32 KB,    *)
(* the encoder's block sizes) are scaled down to a few bytes; the magic    *)
(* numbers and the legacy size bound keep their values.                    *)
(***************************************************************************)
EXTENDS Integers, Sequences, FiniteSets, TLC

(***************************************************************************)
(* Bounds of the model.                                                    *)
(***************************************************************************)
\* number of top-level calls (compress or decompress) made in one process
MaxCalls == 2
\* the framed decoder's input and output buffers (256 KB each in the source),
\* in machine words
BuffWords == 2
\* the sparse scan segment (32 KB in the source), in machine words
Seg0Words == 1
\* the pass-through copy buffer (64 KB in the source), in bytes
PassBuffSize == 3
\* the encoder's block sizes are those of the source divided by this
BlockScale == 32768

\* the calls of itself the dispatcher can make before the stack is used up,
\* after which the process is dead
MaxDepth == 4
\* the largest single seek of the sparse writer (1 GB in the source, which is
\* 32768 scan segments), in scan segments
GBSegs == 2
\* the longest data a frame of the sparse writer's inputs holds, in bytes
MaxDecoded == 10

(***************************************************************************)
(* Bytes, sequences, 32-bit values.                                        *)
(***************************************************************************)
Min(a, b) == IF a < b THEN a ELSE b

Max(a, b) == IF a > b THEN a ELSE b

Take(s, n) == SubSeq(s, 1, Min(n, Len(s)))

Drop(s, n) == SubSeq(s, n + 1, Len(s))

RECURSIVE SumSeq(_)
SumSeq(s) == IF s = <<>> THEN 0 ELSE s[1] + SumSeq(Tail(s))

RECURSIVE Flatten(_)
Flatten(ss) == IF ss = <<>> THEN <<>> ELSE ss[1] \o Flatten(Tail(ss))

U32(n) == [hi |-> n \div 65536, lo |-> n % 65536]

U32GT(a, b) == a.hi > b.hi \/ (a.hi = b.hi /\ a.lo > b.lo)

\* magic & mask, for a mask that clears the low 4 bits (0xFFFFFFF0)
U32ClearLow4(a) == [hi |-> a.hi, lo |-> a.lo - (a.lo % 16)]

MAGICNUMBER_SIZE == 4

LZ4G_BLOCKSIZEID_DEFAULT == 7

minBlockSizeID == 4

maxBlockSizeID == 7

LZ4G_MAGICNUMBER == U32(407708164)     \* 0x184D2204

LZ4G_SKIPPABLE0 == U32(407710288)      \* 0x184D2A50

LEGACY_MAGICNUMBER == U32(407642370)   \* 0x184C2102

LEGACY_BLOCKSIZE == 8 * 1048576

\* sizeof(size_t)
sizeT == 4

maskT == sizeT - 1

LZ4G_readLE32(s) == [lo |-> s[1] + s[2] * 256, hi |-> s[3] + s[4] * 256]

LZ4G_writeLE32(v) == << v.lo % 256, v.lo \div 256, v.hi % 256, v.hi \div 256 >>

\* the comparison made without the mask
LZ4G_isSkippableUnmasked(magic) == magic = LZ4G_SKIPPABLE0

LZ4G_isSkippableMagicNumber(magic) == U32ClearLow4(magic) = LZ4G_SKIPPABLE0

LZ4G_GetBlockSize_FromBlockId(id) == 2 ^ (8 + 2 * id)

(***************************************************************************)
(* The C library's streams.  An input stream is a byte sequence and a      *)
(* cursor; a read past the end returns fewer bytes.  An output stream is a *)
(* sequence of cells, Hole marking a byte that was seeked over and never   *)
(* written, and a cursor; such a byte reads back as zero.                  *)
(***************************************************************************)
Hole == -1

fread(f, pos, n) == SubSeq(f, pos + 1, Min(pos + n, Len(f)))

fwrite(f, pos, bytes) ==
    IF bytes = <<>> THEN f
    ELSE [i \in 1..Max(Len(f), pos + Len(bytes)) |->
             IF i > pos /\ i <= pos + Len(bytes) THEN bytes[i - pos]
             ELSE IF i <= Len(f) THEN f[i] ELSE Hole]

ReadBack(f) == [i \in 1..Len(f) |-> IF f[i] = Hole THEN 0 ELSE f[i]]

(***************************************************************************)
(* The LZ4 block codec (lz4.h), used by the legacy format.  The decoder    *)
(* follows the block format: a token byte, the literal length (extended by *)
(* further bytes when the nibble is 15), the literals, and, unless the     *)
(* literals end the input, a 2-byte offset and a match length.  The result *)
(* is [ok, out]: ok is FALSE where LZ4_decompress_safe returns a negative  *)
(* value.                                                                  *)
(***************************************************************************)
LZ4_COMPRESSBOUND(isize) == isize + (isize \div 255) + 16

LASTLITERALS == 5

MFLIMIT == 12

LZ4Fail == [ok |-> FALSE, out |-> <<>>]

\* the value of a length nibble, with its extension bytes; ip is the number
\* of bytes consumed; [ok, len, ip]
RECURSIVE LZ4_length(_, _, _)
LZ4_length(src, ip, acc) ==
    IF ip >= Len(src) THEN [ok |-> FALSE, len |-> 0, ip |-> ip]
    ELSE IF src[ip + 1] = 255 THEN LZ4_length(src, ip + 1, acc + 255)
    ELSE [ok |-> TRUE, len |-> acc + src[ip + 1], ip |-> ip + 1]

\* op bytes of out followed by n bytes copied from offset back (overlapping)
RECURSIVE LZ4_copyMatch(_, _, _)
LZ4_copyMatch(out, offset, n) ==
    IF n = 0 THEN out
    ELSE LZ4_copyMatch(Append(out, out[Len(out) + 1 - offset]), offset, n - 1)

RECURSIVE LZ4_sequences(_, _, _, _)
LZ4_sequences(src, ip, out, maxOutputSize) ==
    IF ip >= Len(src) THEN LZ4Fail
    ELSE
    LET token == src[ip + 1]
        lit == IF token \div 16 = 15 THEN LZ4_length(src, ip + 1, 15)
               ELSE [ok |-> TRUE, len |-> token \div 16, ip |-> ip + 1]
        cpy == Len(out) + lit.len
    IN  IF ~lit.ok THEN LZ4Fail
        ELSE IF cpy > maxOutputSize - MFLIMIT
                \/ lit.ip + lit.len > Len(src) - (2 + 1 + LASTLITERALS)
        THEN \* last literals: they must end the input
             IF lit.ip + lit.len # Len(src) \/ cpy > maxOutputSize THEN LZ4Fail
             ELSE [ok |-> TRUE, out |-> out \o SubSeq(src, lit.ip + 1, lit.ip + lit.len)]
        ELSE
        LET out1 == out \o SubSeq(src, lit.ip + 1, lit.ip + lit.len)
            ip1 == lit.ip + lit.len
            offset == src[ip1 + 1] + 256 * src[ip1 + 2]
            ml == IF token % 16 = 15 THEN LZ4_length(src, ip1 + 2, 15)
                  ELSE [ok |-> TRUE, len |-> token % 16, ip |-> ip1 + 2]
        IN  IF offset = 0 \/ offset > Len(out1) \/ ~ml.ok THEN LZ4Fail
            ELSE IF Len(out1) + ml.len + 4 > maxOutputSize - LASTLITERALS THEN LZ4Fail
            ELSE LZ4_sequences(src, ml.ip, LZ4_copyMatch(out1, offset, ml.len + 4),
                               maxOutputSize)

LZ4_decompress_safe(src, maxOutputSize) == LZ4_sequences(src, 0, <<>>, maxOutputSize)

\* a block of literals only, as the compressor emits for data without matches
LZ4_literalBlock(data) == << 16 * Len(data) >> \o data

(***************************************************************************)
(* The LZ4F streaming frame codec (lz4frame.h).  A frame is                *)
(*   magic(4) FLG BD HC { blockSize(4) data }* endMark(4) [checksum(4)]    *)
(* where bit 31 of a block size marks a block stored uncompressed.  The    *)
(* encoder stores every block uncompressed (the codec does so whenever     *)
(* compression does not shrink a block); the decoder accepts both kinds.   *)
(* Checksums are a byte sum and a length, in place of xxHash.              *)
(***************************************************************************)
LZ4F_headerChecksum(flg, bd) == (flg * 7 + bd + 13) % 256

LZ4F_contentChecksum(sum, n) == << sum % 256, (sum \div 256) % 256, n % 256, 165 >>

\* FLG: version 01, block independence, content checksum
LZ4F_flg(prefs) == 64 + 32 * prefs.blockMode + 4 * prefs.contentChecksumFlag

LZ4F_bd(prefs) == 16 * prefs.blockSizeID

LZ4F_compressBegin(prefs) ==
    LZ4G_writeLE32(LZ4G_MAGICNUMBER)
        \o << LZ4F_flg(prefs), LZ4F_bd(prefs),
              LZ4F_headerChecksum(LZ4F_flg(prefs), LZ4F_bd(prefs)) >>

LZ4F_compressUpdate(src) ==
    LZ4G_writeLE32([hi |-> 32768, lo |-> Len(src)]) \o src

LZ4F_compressEnd(prefs, sum, n) ==
    << 0, 0, 0, 0 >>
        \o (IF prefs.contentChecksumFlag = 1 THEN LZ4F_contentChecksum(sum, n) ELSE <<>>)

\* a decompression context as LZ4F_createDecompressionContext leaves it
LZ4F_newContext ==
    [stage |-> "magic", buf |-> <<>>, need |-> 0, flg |-> 0, bd |-> 0,
     sum |-> 0, n |-> 0, pend |-> <<>>]

LZ4F_result(err, ctx, consumed, out) ==
    [err |-> err, ctx |-> ctx, consumed |-> consumed, out |-> out]

\* the length a 4-byte field declares, capped where no input is that long
LZ4F_fieldLength(v) == IF v.hi >= 16384 THEN 1073741824 ELSE v.hi * 65536 + v.lo

(***************************************************************************)
(* LZ4F_decompress(ctx, dst, &dstSize, src, &srcSize): consumes src from   *)
(* position pos on, appends to out up to cap bytes, and returns when the   *)
(* input is used up, the output is full, or a frame has ended.             *)
(***************************************************************************)
RECURSIVE LZ4F_run(_, _, _, _, _)
LZ4F_run(ctx, src, pos, out, cap) ==
    IF ctx.stage = "flush" THEN
        IF Len(out) >= cap THEN LZ4F_result(FALSE, ctx, pos, out)
        ELSE LET k == Min(cap - Len(out), Len(ctx.pend))
                 rest == Drop(ctx.pend, k)
             IN  LZ4F_run([ctx EXCEPT !.pend = rest,
                                      !.stage = IF rest = <<>> THEN "bsize" ELSE "flush"],
                          src, pos, out \o Take(ctx.pend, k), cap)
    ELSE IF pos >= Len(src) THEN LZ4F_result(FALSE, ctx, pos, out)
    ELSE
    LET b == src[pos + 1]
        got == Append(ctx.buf, b)
    IN  CASE ctx.stage = "magic" ->
                IF Len(got) < 4 THEN LZ4F_run([ctx EXCEPT !.buf = got], src, pos + 1, out, cap)
                ELSE IF LZ4G_readLE32(got) = LZ4G_MAGICNUMBER
                THEN LZ4F_run([LZ4F_newContext EXCEPT !.stage = "flg"], src, pos + 1, out, cap)
                ELSE IF U32ClearLow4(LZ4G_readLE32(got)) = LZ4G_SKIPPABLE0
                THEN LZ4F_run([LZ4F_newContext EXCEPT !.stage = "sfsize"], src, pos + 1, out, cap)
                ELSE LZ4F_result(TRUE, ctx, pos, out)
          [] ctx.stage = "flg" ->
                \* version 01, no reserved bit, no block checksum, no content size
                IF b \div 64 # 1 \/ b % 4 # 0 \/ (b \div 16) % 2 # 0 \/ (b \div 8) % 2 # 0
                THEN LZ4F_result(TRUE, ctx, pos, out)
                ELSE LZ4F_run([ctx EXCEPT !.flg = b, !.stage = "bd"], src, pos + 1, out, cap)
          [] ctx.stage = "bd" ->
                IF b % 16 # 0 \/ b \div 16 < 4 \/ b \div 16 > 7
                THEN LZ4F_result(TRUE, ctx, pos, out)
                ELSE LZ4F_run([ctx EXCEPT !.bd = b, !.stage = "hc"], src, pos + 1, out, cap)
          [] ctx.stage = "hc" ->
                IF b # LZ4F_headerChecksum(ctx.flg, ctx.bd)
                THEN LZ4F_result(TRUE, ctx, pos, out)
                ELSE LZ4F_run([ctx EXCEPT !.stage = "bsize"], src, pos + 1, out, cap)
          [] ctx.stage = "bsize" ->
                IF Len(got) < 4 THEN LZ4F_run([ctx EXCEPT !.buf = got], src, pos + 1, out, cap)
                ELSE
                LET v == LZ4G_readLE32(got)
                    raw == v.hi >= 32768
                    size == [hi |-> v.hi % 32768, lo |-> v.lo]
                IN  IF v = U32(0) THEN
                        IF (ctx.flg \div 4) % 2 = 1
                        THEN LZ4F_run([ctx EXCEPT !.buf = <<>>, !.stage = "cksum"],
                                      src, pos + 1, out, cap)
                        ELSE LZ4F_result(FALSE, LZ4F_newContext, pos + 1, out)
                    ELSE IF U32GT(size, U32(LZ4G_GetBlockSize_FromBlockId(ctx.bd \div 16)))
                    THEN LZ4F_result(TRUE, ctx, pos, out)
                    ELSE LZ4F_run([ctx EXCEPT !.buf = <<>>,
                                              !.need = LZ4F_fieldLength(size),
                                              !.stage = IF size = U32(0) THEN "bsize"
                                                        ELSE IF raw THEN "raw" ELSE "cdata"],
                                  src, pos + 1, out, cap)
          [] ctx.stage = "raw" ->
                IF Len(out) >= cap THEN LZ4F_result(FALSE, ctx, pos, out)
                ELSE LZ4F_run([ctx EXCEPT !.need = @ - 1, !.sum = @ + b, !.n = @ + 1,
                                          !.stage = IF ctx.need = 1 THEN "bsize" ELSE "raw"],
                              src, pos + 1, Append(out, b), cap)
          [] ctx.stage = "cdata" ->
                IF ctx.need > 1
                THEN LZ4F_run([ctx EXCEPT !.buf = got, !.need = @ - 1], src, pos + 1, out, cap)
                ELSE
                LET dec == LZ4_decompress_safe(got, LZ4G_GetBlockSize_FromBlockId(ctx.bd \div 16))
                IN  IF ~dec.ok THEN LZ4F_result(TRUE, ctx, pos, out)
                    ELSE LZ4F_run([ctx EXCEPT !.buf = <<>>, !.need = 0,
                                              !.sum = @ + SumSeq(dec.out),
                                              !.n = @ + Len(dec.out),
                                              !.pend = dec.out,
                                              !.stage = IF dec.out = <<>> THEN "bsize"
                                                        ELSE "flush"],
                                  src, pos + 1, out, cap)
          [] ctx.stage = "cksum" ->
                IF Len(got) < 4 THEN LZ4F_run([ctx EXCEPT !.buf = got], src, pos + 1, out, cap)
                ELSE IF got # LZ4F_contentChecksum(ctx.sum, ctx.n)
                THEN LZ4F_result(TRUE, ctx, pos, out)
                ELSE LZ4F_result(FALSE, LZ4F_newContext, pos + 1, out)
          [] ctx.stage = "sfsize" ->
                IF Len(got) < 4 THEN LZ4F_run([ctx EXCEPT !.buf = got], src, pos + 1, out, cap)
                ELSE IF LZ4G_readLE32(got) = U32(0)
                THEN LZ4F_result(FALSE, LZ4F_newContext, pos + 1, out)
                ELSE LZ4F_run([ctx EXCEPT !.buf = <<>>, !.stage = "skip",
                                          !.need = LZ4F_fieldLength(LZ4G_readLE32(got))],
                              src, pos + 1, out, cap)
          [] OTHER -> \* "skip"
                IF ctx.need > 1
                THEN LZ4F_run([ctx EXCEPT !.need = @ - 1], src, pos + 1, out, cap)
                ELSE LZ4F_result(FALSE, LZ4F_newContext, pos + 1, out)

LZ4F_decompress(ctx, src, cap) == LZ4F_run(ctx, src, 0, <<>>, cap)

\* an invocation need not use all of src: it may stop after any limit >= 1 of
\* its bytes, and the caller is told how many it consumed
LZ4F_decompressPart(ctx, src, cap, limit) == LZ4F_decompress(ctx, Take(src, limit), cap)

(***************************************************************************)
(* Program constants.                                                      *)
(***************************************************************************)
\* (unsigned long long)-1, the value of *ret that means end of input
ENDOFSTREAM == -1

\* the value of a 4-byte field as a byte count; no stream of the model is
\* as long as 2^30 bytes, so any larger value is kept as 2^30
ByteCount(v) == LZ4F_fieldLength(v)

inBuffSize == BuffWords * sizeT

outBuffSize == BuffWords * sizeT

bs0T == Seg0Words

\* 1 GB, the largest single seek of the sparse writer
OneGB == GBSegs * bs0T * sizeT

\* the bytes malloc'ed memory may hold before it is written
GarbageBytes == {0, 255}

Uninit == -2

(***************************************************************************)
(* Sparse Write Cursor (LZ4G_decodeLZ4S, lines 340-391).  A cursor is      *)
(* [out, pos, skips, seek]: the output stream, its position, storedSkips,  *)
(* and the largest offset handed to fseek(foutput, ., SEEK_CUR) so far.    *)
(***************************************************************************)
fseekCur(st, n) == [st EXCEPT !.pos = @ + n, !.seek = Max(@, n)]

fwriteCur(st, bytes) ==
    [st EXCEPT !.out = fwrite(st.out, st.pos, bytes), !.pos = @ + Len(bytes)]

\* the number of leading zero elements of s
RECURSIVE LeadingZeros(_)
LeadingZeros(s) ==
    IF s = <<>> \/ s[1] # 0 THEN 0 ELSE 1 + LeadingZeros(Tail(s))

\* the inner for loop of line 354: leading all-zero words among the first
\* seg0SizeT words of buf from word oBuffPosT on
RECURSIVE ZeroWords(_, _, _)
ZeroWords(buf, oBuffPosT, seg0SizeT) ==
    IF seg0SizeT = 0 THEN 0
    ELSE IF \E i \in 1..sizeT : buf[oBuffPosT * sizeT + i] # 0 THEN 0
    ELSE 1 + ZeroWords(buf, oBuffPosT + 1, seg0SizeT - 1)

\* one turn of the while loop of lines 347-373
SparseSegment(st, buf, oBuffPosT, seg0SizeT) ==
    LET nb0T == ZeroWords(buf, oBuffPosT, seg0SizeT)
        st1 == [st EXCEPT !.skips = @ + nb0T * sizeT]
        st2 == IF st1.skips > OneGB
               THEN [fseekCur(st1, OneGB) EXCEPT !.skips = @ - OneGB]
               ELSE st1
    IN  IF nb0T # seg0SizeT
        THEN fwriteCur([fseekCur(st2, st2.skips) EXCEPT !.skips = 0],
                       SubSeq(buf, (oBuffPosT + nb0T) * sizeT + 1,
                              (oBuffPosT + seg0SizeT) * sizeT))
        ELSE st2

RECURSIVE SparseSegments(_, _, _, _)
SparseSegments(st, buf, oBuffPosT, oBuffSizeT) ==
    IF oBuffSizeT = 0 THEN st
    ELSE LET seg0SizeT == Min(bs0T, oBuffSizeT)
         IN  SparseSegments(SparseSegment(st, buf, oBuffPosT, seg0SizeT), buf,
                            oBuffPosT + seg0SizeT, oBuffSizeT - seg0SizeT)

\* the zero bytes after the last whole word left out of the pending skip
SparseRestUncounted(st, buf) ==
    LET restSize == Len(buf) % sizeT
        rest == SubSeq(buf, Len(buf) - restSize + 1, Len(buf))
        z == LeadingZeros(rest)
    IN  IF restSize = 0 \/ z = restSize THEN st
        ELSE fwriteCur([fseekCur(st, st.skips) EXCEPT !.skips = 0], Drop(rest, z))

\* lines 374-390: the bytes after the last whole word
SparseRest(st, buf) ==
    LET restSize == Len(buf) % sizeT
        rest == SubSeq(buf, Len(buf) - restSize + 1, Len(buf))
        z == LeadingZeros(rest)
        st1 == [st EXCEPT !.skips = @ + z]
    IN  IF restSize = 0 THEN st
        ELSE IF z # restSize
        THEN fwriteCur([fseekCur(st1, st1.skips) EXCEPT !.skips = 0], Drop(rest, z))
        ELSE st1

\* lines 340-391: one decoded block through the cursor
SparseWrite(st, buf) ==
    SparseRest(SparseSegments(st, buf, 0, Len(buf) \div sizeT), buf)

\* the pending skip dropped at the end, the last zeros never written
SparseFinalDropped(st) == st

\* lines 402-411: the pending skip at the end of the decoder
SparseFinal(st) ==
    IF st.skips > 0
    THEN fwriteCur([fseekCur(st, st.skips - 1) EXCEPT !.skips = @ - 1], << 0 >>)
    ELSE st

\* lines 394-395: the write of a decoded block with sparse mode off
PlainWrite(st, buf) == fwriteCur(st, buf)

\* lines 340-396: the write of a decoded block
WriteBlock(sparse, st, buf) ==
    IF sparse # 0 THEN SparseWrite(st, buf) ELSE PlainWrite(st, buf)

(***************************************************************************)
(* Input files of the decoder: segments placed back to back.  A segment is *)
(* [kind, bytes, plain]: its format, its bytes, the data it holds.         *)
(***************************************************************************)
DefaultPrefs == [blockMode |-> 1, blockSizeID |-> 7, contentChecksumFlag |-> 1]

RECURSIVE FrameBlocks(_, _)
FrameBlocks(S, blockSize) ==
    IF S = <<>> THEN <<>>
    ELSE LZ4F_compressUpdate(Take(S, blockSize)) \o FrameBlocks(Drop(S, blockSize), blockSize)

\* the frame the streaming encoder makes of S, fed in blocks of blockSize
FrameBytes(S, prefs, blockSize) ==
    LZ4F_compressBegin(prefs) \o FrameBlocks(S, blockSize)
        \o LZ4F_compressEnd(prefs, SumSeq(S), Len(S))

\* a frame whose single block is stored as an LZ4 block of literals
FrameBytesLZ4(S, prefs) ==
    LZ4F_compressBegin(prefs)
        \o LZ4G_writeLE32(U32(Len(S) + 1)) \o LZ4_literalBlock(S)
        \o LZ4F_compressEnd(prefs, SumSeq(S), Len(S))

RECURSIVE LegacyBlocks(_)
LegacyBlocks(blocks) ==
    IF blocks = <<>> THEN <<>>
    ELSE LZ4G_writeLE32(U32(Len(blocks[1]) + 1)) \o LZ4_literalBlock(blocks[1])
             \o LegacyBlocks(Tail(blocks))

LegacyBytes(blocks) == LZ4G_writeLE32(LEGACY_MAGICNUMBER) \o LegacyBlocks(blocks)

SkippableBytes(nibble, payload) ==
    LZ4G_writeLE32([hi |-> LZ4G_SKIPPABLE0.hi, lo |-> LZ4G_SKIPPABLE0.lo + nibble])
        \o LZ4G_writeLE32(U32(Len(payload))) \o payload

Segment(kind, bytes, plain) == [kind |-> kind, bytes |-> bytes, plain |-> plain]

FrameSeg(S, prefs, blockSize) == Segment("frame", FrameBytes(S, prefs, blockSize), S)

LegacySeg(blocks) == Segment("legacy", LegacyBytes(blocks), Flatten(blocks))

SkippableSeg(nibble, payload) == Segment("skippable", SkippableBytes(nibble, payload), <<>>)

UnknownSeg(bytes) == Segment("unknown", bytes, <<>>)

RECURSIVE FileBytes(_)
FileBytes(segs) == IF segs = <<>> THEN <<>> ELSE segs[1].bytes \o FileBytes(Tail(segs))

RECURSIVE FilePlain(_)
FilePlain(segs) == IF segs = <<>> THEN <<>> ELSE segs[1].plain \o FilePlain(Tail(segs))

(***************************************************************************)
(* State.                                                                  *)
(***************************************************************************)
VARIABLES
    g_overwrite,          \* static int g_overwrite
    g_sparseFileSupport,  \* static int g_sparseFileSupport
    g_blockSizeId,        \* static int g_blockSizeId
    g_blockChecksum,      \* static int g_blockChecksum
    g_streamChecksum,     \* static int g_streamChecksum
    g_blockIndependence,  \* static int g_blockIndependence
    g_contentSizeFlag,    \* static int g_contentSizeFlag
    archive,              \* the file the last successful compress call wrote
    prefs,                \* LZ4G_compressFramedFileStream: prefs
    cctx,                 \* LZ4G_compressFramedFileStream: the compression context
    block,                \* LZ4G_compressFramedFileStream: in_buff (readSize bytes)
    elog,                 \* history: the calls made on the compression context
    nbCalls,              \* static unsigned nbCalls of LZ4G_selectDecoder
    calls,                \* top-level calls made so far in this process
    op,                   \* the top-level call in progress
    pc,                   \* where the call stands
    segs,                 \* the segments the input was made of
    fin, inPos,           \* finput: contents and cursor
    fout, outPos,         \* foutput: contents and cursor
    retval,               \* the value returned by the top-level call
    filesize,             \* LZ4G_decompressFramedFileStream: filesize
    decodedSize,          \* LZ4G_decompressFramedFileStream: decodedSize (*ret)
    decRes,               \* LZ4G_decompressFramedFileStream: decRes
    errstring,            \* the text in the caller's buffer *errstring
    nerrbytes,            \* *nerrbytes
    errnumber,            \* history: the error number of the return taken, 0 when none
    heap,                 \* what the call in progress allocated and has not released
    firstCall,            \* nbCalls as the first dispatch of this call saw it
    dsize,                \* the running filesize of the decoder in progress
    in_buff,              \* LZ4G_decodeLegacyStream: first 4 bytes of in_buff
    ctx,                  \* LZ4G_decodeLZ4S: the decompression context
    chunk, pos,           \* LZ4G_decodeLZ4S: inBuff (readSize bytes), pos
    storedSkips,          \* LZ4G_decodeLZ4S: storedSkips
    maxSeek,              \* history: the largest offset LZ4G_decodeLZ4S handed to fseek
    U32store,             \* LZ4G_selectDecoder: the 4 header bytes
    fed,                  \* history: the bytes the decompression context consumed
    decoded,              \* history: the bytes the decompression context produced
    lastKind,             \* history: what the last dispatch of this call read
    nDecoded,             \* history: segments decoded so far in this call
    startPos,             \* history: the input position at the last dispatch's entry
    depth                 \* history: the dispatcher's calls of itself now on the stack

decoderPrefs == << g_overwrite, g_sparseFileSupport >>

encoderPrefs == << g_blockSizeId, g_blockChecksum, g_streamChecksum, g_blockIndependence,
                  g_contentSizeFlag >>

encoder == << prefs, cctx, block, elog >>

globals == << decoderPrefs, encoderPrefs, archive, encoder >>

streams == << fin, inPos, fout, outPos >>

errchan == << errstring, nerrbytes, errnumber >>

driver == << retval, filesize, decodedSize, decRes, errchan >>

locals == << dsize, in_buff, ctx, chunk, pos, storedSkips, maxSeek, U32store, fed,
            decoded >>

history == << firstCall, lastKind, nDecoded, startPos, depth >>

vars == << globals, nbCalls, calls, op, pc, segs, streams, driver, history, locals, heap >>

\* lines 298-304: what LZ4G_decodeLZ4S allocates
DecoderMemory == {"ctx", "inBuff", "outBuff"}

\* lines 240-241: what LZ4G_decodeLegacyStream allocates
LegacyMemory == {"in_buff", "out_buff"}

\* line 426: what LZ4G_passThrough allocates
PassMemory == {"buffer"}

\* lines 533-552: what LZ4G_compressFramedFileStream allocates
EncoderMemory == {"ctx", "in_buff", "out_buff"}

NoLocals ==
    /\ dsize = 0
    /\ in_buff = << Uninit, Uninit, Uninit, Uninit >>
    /\ ctx = LZ4F_newContext
    /\ chunk = <<>>
    /\ pos = 0
    /\ storedSkips = 0
    /\ maxSeek = 0
    /\ U32store = <<>>
    /\ fed = <<>>
    /\ decoded = <<>>

ClearLocals ==
    /\ dsize' = 0
    /\ in_buff' = << Uninit, Uninit, Uninit, Uninit >>
    /\ ctx' = LZ4F_newContext
    /\ chunk' = <<>>
    /\ pos' = 0
    /\ storedSkips' = 0
    /\ maxSeek' = 0
    /\ U32store' = <<>>
    /\ fed' = <<>>
    /\ decoded' = <<>>

NoPrefs ==
    [autoFlush |-> 0, compressionLevel |-> 0, blockMode |-> 0, blockSizeID |-> 0,
     contentChecksumFlag |-> 0, blockChecksumFlag |-> 0, contentSize |-> 0]

NoEncoder ==
    /\ prefs = NoPrefs
    /\ cctx = [sum |-> 0, n |-> 0]
    /\ block = <<>>
    /\ elog = <<>>

Init ==
    /\ g_overwrite = 1
    /\ g_sparseFileSupport = 0
    /\ g_blockSizeId = LZ4G_BLOCKSIZEID_DEFAULT
    /\ g_blockChecksum = 0
    /\ g_streamChecksum = 1
    /\ g_blockIndependence = 1
    /\ g_contentSizeFlag = 0
    /\ archive = <<>>
    /\ NoEncoder
    /\ nbCalls = 0
    /\ calls = 0
    /\ op = "none"
    /\ pc = "idle"
    /\ segs = <<>>
    /\ fin = <<>> /\ inPos = 0
    /\ fout = <<>> /\ outPos = 0
    /\ retval = 0 /\ filesize = 0 /\ decodedSize = 0 /\ decRes = 0
    /\ errstring = <<>> /\ nerrbytes = 0 /\ errnumber = 0
    /\ firstCall = 0 /\ lastKind = "none" /\ nDecoded = 0
    /\ startPos = 0 /\ depth = 0
    /\ NoLocals
    /\ heap = {}

(***************************************************************************)
(* Parameters.                                                             *)
(***************************************************************************)
SetterArgs == {0, 1, 2}

\* the capacities a caller passes in *nerrbytes: too small for a text, and
\* the 1024 the header asks for
CapacityArgs == {3, 1024}

LZ4G_setOverwrite(yes) ==
    /\ pc = "idle"
    /\ g_overwrite' = (IF yes # 0 THEN 1 ELSE 0)
    /\ retval' = g_overwrite'
    /\ UNCHANGED << heap, g_sparseFileSupport, encoderPrefs, archive, encoder, nbCalls, calls, op,
                    pc, segs, streams, filesize, decodedSize, decRes, errchan, history,
                    locals >>

LZ4G_setSparseFile(enable) ==
    /\ pc = "idle"
    /\ g_sparseFileSupport' = (IF enable # 0 THEN 1 ELSE 0)
    /\ retval' = g_sparseFileSupport'
    /\ UNCHANGED << heap, g_overwrite, encoderPrefs, archive, encoder, nbCalls, calls, op,
                    pc, segs, streams, filesize, decodedSize, decRes, errchan, history,
                    locals >>

(***************************************************************************)
(* LZ4G_decompressFramedFileStream: entry, and the loop over streams.      *)
(***************************************************************************)
\* line 619: *nerrbytes = 0, whatever the caller passed
EntryCapacity(capacity) == 0

\* lines 612-625: the call, with finput holding the segments file and
\* *nerrbytes the capacity of the caller's buffer
DecompressCall(file, capacity) ==
    /\ pc = "idle"
    /\ calls < MaxCalls
    /\ calls' = calls + 1
    /\ op' = "decompress"
    /\ segs' = file
    /\ fin' = FileBytes(file) /\ inPos' = 0
    /\ fout' = <<>> /\ outPos' = 0
    /\ retval' = 0 /\ filesize' = 0 /\ decodedSize' = 0 /\ decRes' = 0
    /\ errstring' = <<>> /\ nerrbytes' = EntryCapacity(capacity) /\ errnumber' = 0
    /\ firstCall' = 0 /\ lastKind' = "none" /\ nDecoded' = 0
    /\ startPos' = 0 /\ depth' = 0
    /\ pc' = "select"
    /\ heap' = {}
    /\ UNCHANGED << globals, nbCalls, locals >>

\* lines 110-118: the text "%s:%i error %i: "fmt of error errnb, as its
\* four fields
Message(errnb) == << "file", "line", errnb, "text" >>

\* snprintf(str, size, ...) of text: at most size - 1 characters are stored,
\* none when size is 0; the length of the whole text is returned
snprintf(str, size, text) ==
    [ret |-> Len(text), str |-> IF size > 0 THEN Take(text, size - 1) ELSE str]

\* a decoder returns to the loop: *ret = size and 0 when res is 0, else
\* LZ4G_RETURN_ERROR(res, ...)
DecoderReturns(res, size) ==
    /\ decRes' = (IF res = 0 THEN 0 ELSE snprintf(errstring, nerrbytes, Message(res)).ret)
    /\ errstring' = (IF res = 0 THEN errstring
                     ELSE snprintf(errstring, nerrbytes, Message(res)).str)
    /\ errnumber' = res
    /\ decodedSize' = (IF res = 0 THEN size ELSE decodedSize)
    /\ pc' = "driver"
    /\ UNCHANGED << retval, filesize, nerrbytes >>

\* lines 631-636: what the loop does with the dispatcher's result
DecompressLoop ==
    /\ pc = "driver"
    /\ IF decRes # 0
       THEN /\ retval' = decRes
            /\ pc' = "done"
            /\ UNCHANGED filesize
       ELSE IF decodedSize # ENDOFSTREAM
       THEN /\ filesize' = filesize + decodedSize
            /\ pc' = "select"
            /\ UNCHANGED retval
       ELSE /\ retval' = 0
            /\ pc' = "done"
            /\ UNCHANGED filesize
    /\ nDecoded' = (IF decRes = 0 /\ decodedSize # ENDOFSTREAM THEN nDecoded + 1 ELSE nDecoded)
    /\ depth' = 0
    /\ ClearLocals
    /\ UNCHANGED << heap, globals, nbCalls, calls, op, segs, streams, decodedSize, decRes,
                    errchan, firstCall, lastKind, startPos >>

\* the caller takes the result; the process goes on.  The file a successful
\* compress call wrote stays, to be given to a later decompress call
CallReturns ==
    /\ pc = "done"
    /\ pc' = "idle"
    /\ heap' = {}
    /\ op' = "none"
    /\ archive' = (IF op = "compress" /\ retval = 0
                   THEN << Segment("frame", fout, fin) >> ELSE archive)
    /\ prefs' = NoPrefs /\ cctx' = [sum |-> 0, n |-> 0] /\ block' = <<>> /\ elog' = <<>>
    /\ segs' = <<>>
    /\ fin' = <<>> /\ inPos' = 0
    /\ fout' = <<>> /\ outPos' = 0
    /\ retval' = 0 /\ filesize' = 0 /\ decodedSize' = 0 /\ decRes' = 0
    /\ errstring' = <<>> /\ nerrbytes' = 0 /\ errnumber' = 0
    /\ firstCall' = 0 /\ lastKind' = "none" /\ nDecoded' = 0
    /\ startPos' = 0 /\ depth' = 0
    /\ UNCHANGED << decoderPrefs, encoderPrefs, nbCalls, calls, locals >>

(***************************************************************************)
(* LZ4G_selectDecoder (lines 449-498): one invocation, up to the call of a *)
(* decoder, the recursive call after a skippable chunk, or its return.     *)
(***************************************************************************)
\* lines 468-470: the magic number the switch sees
FoldedMagic(magicNumber) ==
    IF LZ4G_isSkippableMagicNumber(magicNumber) THEN LZ4G_SKIPPABLE0 ELSE magicNumber

\* lines 470-497: the case the switch takes
MagicCase(magicNumber) ==
    LET m == FoldedMagic(magicNumber)
    IN  IF m = LZ4G_MAGICNUMBER THEN "frame"
        ELSE IF m = LEGACY_MAGICNUMBER THEN "legacy"
        ELSE IF m = LZ4G_SKIPPABLE0 THEN "skippable"
        ELSE "unknown"

\* nbCalls not static: every dispatch counts from 0
CountCallAfresh(n) == 1

\* lines 455-458: nbCalls++ on the static counter
CountCall(n) == n + 1

\* every dispatch taken for the first
JustStartedAlways(n) == n >= 1

\* line 487: just started
JustStarted(n) == n = 1

\* a header cut short taken for the end of the input
HeaderIncomplete(nbReadBytes) == nbReadBytes < MAGICNUMBER_SIZE

\* line 461: nbReadBytes==0
HeaderEmpty(nbReadBytes) == nbReadBytes = 0

\* the widths of long, the type of fseek's offset, in the builds of the
\* source: 32 bits (32-bit unix, line 45) and 64 bits
LongWidths == {32, 64}

\* line 482: the unsigned size handed to fseek as a long of the given width:
\* a size of 2^31 or more is negative where long has 32 bits
LongOffset(size, bits) ==
    IF bits = 32 /\ size.hi >= 32768
    THEN (size.hi - 65536) * 65536 + size.lo
    ELSE ByteCount(size)

\* line 482: fseek(finput, size, SEEK_CUR)
SkipArea(p, offset) == p + offset

\* what a dispatch makes of the bytes its header read returned
DispatchKind(hdr) ==
    IF Len(hdr) = 0 THEN "eof"
    ELSE IF Len(hdr) # MAGICNUMBER_SIZE THEN "short"
    ELSE MagicCase(LZ4G_readLE32(hdr))

LZ4G_selectDecoder ==
    /\ pc = "select"
    /\ nbCalls' = CountCall(nbCalls)
    /\ firstCall' = (IF firstCall = 0 THEN nbCalls' ELSE firstCall)
    /\ startPos' = inPos
    /\ LET hdr == fread(fin, inPos, MAGICNUMBER_SIZE)
           kind == MagicCase(LZ4G_readLE32(hdr))
           szb == fread(fin, inPos + 4, 4)
       IN  IF HeaderEmpty(Len(hdr)) THEN
               /\ DecoderReturns(0, ENDOFSTREAM)
               /\ UNCHANGED << streams, locals >>
           ELSE IF Len(hdr) # MAGICNUMBER_SIZE THEN
               /\ DecoderReturns(40, 0)
               /\ inPos' = inPos + Len(hdr)
               /\ UNCHANGED << fin, fout, outPos, locals >>
           ELSE IF kind = "frame" THEN
               /\ pc' = "lz4s_init"
               /\ inPos' = inPos + 4
               /\ U32store' = hdr
               /\ UNCHANGED << fin, fout, outPos, driver, dsize, in_buff, ctx, chunk, pos,
                               storedSkips, maxSeek, fed, decoded >>
           ELSE IF kind = "legacy" THEN
               /\ pc' = "legacy"
               /\ inPos' = inPos + 4
               /\ U32store' = hdr
               /\ UNCHANGED << fin, fout, outPos, driver, dsize, in_buff, ctx, chunk, pos,
                               storedSkips, maxSeek, fed, decoded >>
           ELSE IF kind = "skippable" THEN
               IF Len(szb) # 4
               THEN /\ DecoderReturns(42, 0)
                    /\ inPos' = inPos + 4 + Len(szb)
                    /\ UNCHANGED << fin, fout, outPos, locals >>
               ELSE \E bits \in LongWidths :
                    LET target == SkipArea(inPos + 8, LongOffset(LZ4G_readLE32(szb), bits))
                    IN  IF target < 0
                        THEN /\ DecoderReturns(43, 0)
                             /\ inPos' = inPos + 8
                             /\ UNCHANGED << fin, fout, outPos, locals >>
                        ELSE /\ inPos' = target
                             /\ pc' = (IF depth < MaxDepth THEN "select" ELSE "overflow")
                             /\ UNCHANGED << fin, fout, outPos, driver, locals >>
           ELSE IF JustStarted(nbCalls') THEN
               IF g_overwrite # 0
               THEN /\ pc' = "pass_init"
                    /\ inPos' = inPos + 4
                    /\ U32store' = hdr
                    /\ UNCHANGED << fin, fout, outPos, driver, dsize, in_buff, ctx, chunk,
                                    pos, storedSkips, maxSeek, fed, decoded >>
               ELSE /\ DecoderReturns(44, 0)
                    /\ inPos' = inPos + 4
                    /\ UNCHANGED << fin, fout, outPos, locals >>
           ELSE /\ DecoderReturns(0, ENDOFSTREAM)
                /\ inPos' = inPos + 4
                /\ UNCHANGED << fin, fout, outPos, locals >>
    /\ lastKind' = DispatchKind(fread(fin, inPos, MAGICNUMBER_SIZE))
    /\ depth' = (IF pc' = "select" THEN depth + 1 ELSE depth)
    /\ UNCHANGED << heap, globals, calls, op, segs, nDecoded >>

(***************************************************************************)
(* LZ4G_decodeLegacyStream (lines 233-281): one turn of the main loop.     *)
(***************************************************************************)
\* in_buff after n bytes were read into its start
Loaded(buf, bytes) == [i \in 1..4 |-> IF i <= Len(bytes) THEN bytes[i] ELSE buf[i]]

\* what a read of buf yields: a byte never written may hold anything
Stale(buf, g) == [i \in 1..4 |-> IF buf[i] = Uninit THEN g ELSE buf[i]]

\* every size field taken for the size of a block
LegacyNeverOversized(blockSize) == FALSE

\* line 255: the size field is no legacy block size
LegacyOversized(blockSize) == U32GT(blockSize, U32(LZ4_COMPRESSBOUND(LEGACY_BLOCKSIZE)))

\* the cursor left behind the size field
LegacyNoRewind(p) == p

\* line 257: fseek(finput, -4, SEEK_CUR)
LegacyRewind(p) == p - 4

LZ4G_decodeLegacyStream ==
    /\ pc = "legacy"
    /\ \E g \in GarbageBytes :
       LET sz == fread(fin, inPos, 4)
           buf1 == Loaded(in_buff, sz)
           blockSize == LZ4G_readLE32(Stale(buf1, g))
           n == ByteCount(blockSize)
           blk == fread(fin, inPos + Len(sz), n)
           buf2 == Loaded(buf1, blk)
           dec == LZ4_decompress_safe(blk, LEGACY_BLOCKSIZE)
       IN  IF Len(sz) = 0 THEN
               /\ DecoderReturns(0, dsize)
               /\ UNCHANGED << streams, locals >>
           ELSE IF LegacyOversized(blockSize) THEN
               /\ inPos' = LegacyRewind(inPos + Len(sz))
               /\ DecoderReturns(0, dsize)
               /\ in_buff' = buf1
               /\ UNCHANGED << fin, fout, outPos, dsize, ctx, chunk, pos, storedSkips, maxSeek,
                               U32store, fed, decoded >>
           ELSE IF Len(blk) # n THEN
               /\ inPos' = inPos + Len(sz) + Len(blk)
               /\ DecoderReturns(52, 0)
               /\ in_buff' = buf2
               /\ UNCHANGED << fin, fout, outPos, dsize, ctx, chunk, pos, storedSkips, maxSeek,
                               U32store, fed, decoded >>
           ELSE IF ~dec.ok THEN
               /\ inPos' = inPos + Len(sz) + Len(blk)
               /\ DecoderReturns(53, 0)
               /\ in_buff' = buf2
               /\ UNCHANGED << fin, fout, outPos, dsize, ctx, chunk, pos, storedSkips, maxSeek,
                               U32store, fed, decoded >>
           ELSE
               /\ inPos' = inPos + Len(sz) + Len(blk)
               /\ dsize' = dsize + Len(dec.out)
               /\ fout' = fwrite(fout, outPos, dec.out)
               /\ outPos' = outPos + Len(dec.out)
               /\ in_buff' = buf2
               /\ UNCHANGED << fin, driver, pc, ctx, chunk, pos, storedSkips, maxSeek, U32store,
                               fed, decoded >>
    /\ heap' = (IF pc' = "driver" /\ decRes' = 0 THEN heap \ LegacyMemory
                ELSE heap \cup LegacyMemory)
    /\ UNCHANGED << globals, nbCalls, calls, op, segs, history >>

(***************************************************************************)
(* LZ4G_decodeLZ4S (lines 283-421).                                        *)
(***************************************************************************)
\* lines 298-314: the context is made and fed the magic number
LZ4G_decodeLZ4S_init ==
    /\ pc = "lz4s_init"
    /\ LET r == LZ4F_decompress(LZ4F_newContext, LZ4G_writeLE32(LZ4G_MAGICNUMBER), 0)
       IN  IF r.err
           THEN /\ DecoderReturns(62, 0)
                /\ UNCHANGED << ctx, fed >>
           ELSE /\ ctx' = r.ctx
                /\ fed' = Take(LZ4G_writeLE32(LZ4G_MAGICNUMBER), r.consumed)
                /\ pc' = "lz4s_read"
                /\ UNCHANGED driver
    /\ heap' = heap \cup DecoderMemory
    /\ dsize' = 0
    /\ storedSkips' = 0
    /\ maxSeek' = 0
    /\ UNCHANGED << globals, nbCalls, calls, op, segs, streams, history, in_buff, chunk,
                    pos, U32store, decoded >>

\* lines 320-325: the next chunk of input
LZ4G_decodeLZ4S_read ==
    /\ pc = "lz4s_read"
    /\ chunk' = fread(fin, inPos, inBuffSize)
    /\ inPos' = inPos + Len(chunk')
    /\ pos' = 0
    /\ pc' = IF chunk' = <<>> THEN "lz4s_end" ELSE "lz4s_decode"
    /\ UNCHANGED << heap, globals, nbCalls, calls, op, segs, fin, fout, outPos, driver, history,
                    dsize, in_buff, ctx, storedSkips, maxSeek, U32store, fed, decoded >>

\* the whole chunk again
RemainingFromStart(buf, p) == buf

\* line 330 and line 332: the slice handed to the streaming decoder
Remaining(buf, p) == Drop(buf, p)

\* pos = remaining
AdvanceAssign(p, consumed) == consumed

\* line 334: pos += remaining
Advance(p, consumed) == p + consumed

\* the decoder that returns when the frame ends, the input cursor put back on
\* the first byte after it
LZ4G_decodeLZ4S_decodeOneFrame ==
    /\ pc = "lz4s_decode"
    /\ \E limit \in 1..Len(Remaining(chunk, pos)) :
       LET r == LZ4F_decompressPart(ctx, Remaining(chunk, pos), outBuffSize, limit)
           st == [out |-> fout, pos |-> outPos, skips |-> storedSkips, seek |-> maxSeek]
           st1 == IF r.out = <<>> THEN st ELSE WriteBlock(g_sparseFileSupport, st, r.out)
       IN  IF r.err
           THEN /\ DecoderReturns(66, 0)
                /\ UNCHANGED << fout, outPos, inPos, dsize, ctx, pos, storedSkips, maxSeek,
                                fed, decoded >>
           ELSE /\ ctx' = r.ctx
                /\ fed' = fed \o Take(Remaining(chunk, pos), r.consumed)
                /\ decoded' = decoded \o r.out
                /\ pos' = Advance(pos, r.consumed)
                /\ dsize' = dsize + Len(r.out)
                /\ fout' = st1.out
                /\ outPos' = st1.pos
                /\ storedSkips' = st1.skips
                /\ maxSeek' = st1.seek
                /\ inPos' = (IF r.ctx = LZ4F_newContext THEN inPos - Len(chunk) + pos'
                             ELSE inPos)
                /\ pc' = IF r.ctx = LZ4F_newContext THEN "lz4s_end"
                         ELSE IF pos' < Len(chunk) THEN "lz4s_decode" ELSE "lz4s_read"
                /\ UNCHANGED driver
    /\ UNCHANGED << heap, globals, nbCalls, calls, op, segs, fin, history, in_buff, chunk,
                    U32store >>

\* lines 327-397: one invocation of the streaming decoder, which consumes the
\* slice or a part of it, and the write of what it decoded
LZ4G_decodeLZ4S_decode ==
    /\ pc = "lz4s_decode"
    /\ \E limit \in 1..Len(Remaining(chunk, pos)) :
       LET r == LZ4F_decompressPart(ctx, Remaining(chunk, pos), outBuffSize, limit)
           st == [out |-> fout, pos |-> outPos, skips |-> storedSkips, seek |-> maxSeek]
           st1 == IF r.out = <<>> THEN st ELSE WriteBlock(g_sparseFileSupport, st, r.out)
       IN  IF r.err
           THEN /\ DecoderReturns(66, 0)
                /\ UNCHANGED << fout, outPos, dsize, ctx, pos, storedSkips, maxSeek, fed,
                                decoded >>
           ELSE /\ ctx' = r.ctx
                /\ fed' = fed \o Take(Remaining(chunk, pos), r.consumed)
                /\ decoded' = decoded \o r.out
                /\ pos' = Advance(pos, r.consumed)
                /\ dsize' = dsize + Len(r.out)
                /\ fout' = st1.out
                /\ outPos' = st1.pos
                /\ storedSkips' = st1.skips
                /\ maxSeek' = st1.seek
                /\ pc' = IF pos' < Len(chunk) THEN "lz4s_decode" ELSE "lz4s_read"
                /\ UNCHANGED driver
    /\ UNCHANGED << heap, globals, nbCalls, calls, op, segs, fin, inPos, history, in_buff, chunk,
                    U32store >>

\* lines 336-397 on their own: the streaming decoder hands over the next
\* decodedBytes bytes of the data the frame holds, which are written
LZ4G_decodeLZ4S_write ==
    /\ pc = "lz4s_write"
    /\ \E decodedBytes \in 1..Min(outBuffSize, Len(FilePlain(segs)) - Len(decoded)) :
       LET outBuff == SubSeq(FilePlain(segs), Len(decoded) + 1, Len(decoded) + decodedBytes)
           st == [out |-> fout, pos |-> outPos, skips |-> storedSkips, seek |-> maxSeek]
           st1 == WriteBlock(g_sparseFileSupport, st, outBuff)
       IN  /\ decoded' = decoded \o outBuff
           /\ dsize' = dsize + decodedBytes
           /\ fout' = st1.out
           /\ outPos' = st1.pos
           /\ storedSkips' = st1.skips
           /\ maxSeek' = st1.seek
           /\ pc' = IF Len(decoded') = Len(FilePlain(segs)) THEN "lz4s_end" ELSE "lz4s_write"
    /\ UNCHANGED << heap, globals, nbCalls, calls, op, segs, fin, inPos, driver, history, in_buff,
                    ctx, chunk, pos, U32store, fed >>

\* the decoder that returns error 66 when the input ends inside a frame
LZ4G_decodeLZ4S_endChecked ==
    /\ pc = "lz4s_end"
    /\ LET st == [out |-> fout, pos |-> outPos, skips |-> storedSkips, seek |-> maxSeek]
           st1 == IF g_sparseFileSupport # 0 THEN SparseFinal(st) ELSE st
       IN  /\ fout' = st1.out
           /\ outPos' = st1.pos
           /\ storedSkips' = st1.skips
           /\ maxSeek' = st1.seek
    /\ heap' = heap \ DecoderMemory
    /\ DecoderReturns(IF ctx = LZ4F_newContext THEN 0 ELSE 66, dsize)
    /\ UNCHANGED << globals, nbCalls, calls, op, segs, fin, inPos, history, dsize, in_buff,
                    ctx, chunk, pos, U32store, fed, decoded >>

\* lines 402-420: the pending skip is realised and the decoder returns
LZ4G_decodeLZ4S_end ==
    /\ pc = "lz4s_end"
    /\ LET st == [out |-> fout, pos |-> outPos, skips |-> storedSkips, seek |-> maxSeek]
           st1 == IF g_sparseFileSupport # 0 THEN SparseFinal(st) ELSE st
       IN  /\ fout' = st1.out
           /\ outPos' = st1.pos
           /\ storedSkips' = st1.skips
           /\ maxSeek' = st1.seek
    /\ heap' = heap \ DecoderMemory
    /\ DecoderReturns(0, dsize)
    /\ UNCHANGED << globals, nbCalls, calls, op, segs, fin, inPos, history, dsize, in_buff,
                    ctx, chunk, pos, U32store, fed, decoded >>

(***************************************************************************)
(* LZ4G_passThrough (lines 424-444).                                       *)
(***************************************************************************)
\* lines 426-431: the 4 header bytes are written
LZ4G_passThrough_init ==
    /\ pc = "pass_init"
    /\ dsize' = MAGICNUMBER_SIZE
    /\ fout' = fwrite(fout, outPos, U32store)
    /\ outPos' = outPos + Len(U32store)
    /\ pc' = "pass_loop"
    /\ heap' = heap \cup PassMemory
    /\ UNCHANGED << globals, nbCalls, calls, op, segs, fin, inPos, driver, history,
                    in_buff, ctx, chunk, pos, storedSkips, maxSeek, U32store, fed, decoded >>

\* lines 433-443: one turn of the copy loop
LZ4G_passThrough_loop ==
    /\ pc = "pass_loop"
    /\ LET read == fread(fin, inPos, PassBuffSize)
       IN  /\ inPos' = inPos + Len(read)
           /\ fout' = fwrite(fout, outPos, read)
           /\ outPos' = outPos + Len(read)
           /\ dsize' = dsize + Len(read)
           /\ IF Len(read) = 0
              THEN DecoderReturns(0, dsize')
              ELSE UNCHANGED << driver, pc >>
    /\ heap' = (IF pc' = "driver" THEN heap \ PassMemory ELSE heap)
    /\ UNCHANGED << globals, nbCalls, calls, op, segs, fin, history, in_buff, ctx, chunk,
                    pos, storedSkips, maxSeek, U32store, fed, decoded >>

(***************************************************************************)
(* The input files offered to the decoder.                                 *)
(***************************************************************************)
NoChecksumPrefs == [blockMode |-> 0, blockSizeID |-> 4, contentChecksumFlag |-> 0]

PlainA == << 7 >>

PlainB == << 1, 0, 0, 0, 0, 0, 0, 0, 0, 0, 2 >>

PlainZ == << 0, 0, 0, 0, 0, 0, 0, 0, 0 >>

FrameSegs ==
    { FrameSeg(PlainA, DefaultPrefs, 4),
      FrameSeg(PlainB, NoChecksumPrefs, 4),
      FrameSeg(<<>>, DefaultPrefs, 4),
      Segment("frame", FrameBytesLZ4(PlainZ, DefaultPrefs), PlainZ) }

LegacySegs ==
    { LegacySeg(<< PlainA >>),
      LegacySeg(<< << 3, 0 >>, << 0, 5, 6 >> >>),
      LegacySeg(<<>>) }

SkippableSegs ==
    { SkippableSeg(0, <<>>),
      SkippableSeg(15, << 9, 8, 7 >>),
      SkippableSeg(3, LZ4G_writeLE32(LEGACY_MAGICNUMBER) \o << 1 >>) }

UnknownSegs ==
    { UnknownSeg(<< 1, 2, 3, 4, 5, 6 >>), UnknownSeg(<< 9, 9, 9, 9 >>),
      UnknownSeg(<< 1, 0, 0, 0, 5 >>) }

\* x with byte i replaced by b
Corrupt(x, i, b) == [x EXCEPT ![i] = b]

\* the frame of 01 02 03 04 in stored blocks of 2 bytes, cut after the first
\* byte of its second block: the bytes 01 02 03 are what it holds
TruncatedFrame ==
    Segment("damaged", Take(FrameBytes(<< 1, 2, 3, 4 >>, DefaultPrefs, 2), 18),
            << 1, 2, 3 >>)

\* the legacy stream of the blocks 03 00 and 00 05 06 with the top byte of its
\* second size field raised to 64: the field is larger than any block and is
\* no magic number; the bytes 03 00 are what is decoded before it
DamagedLegacyLength ==
    LET blocks == << << 3, 0 >>, << 0, 5, 6 >> >>
        field == Len(LegacyBytes(Take(blocks, 1)))
    IN  Segment("damaged", Corrupt(LegacyBytes(blocks), field + 4, 64), << 3, 0 >>)

\* a skippable chunk whose size field is 2^32 - 8
SkippableBack ==
    Segment("skippable",
            LZ4G_writeLE32(LZ4G_SKIPPABLE0) \o LZ4G_writeLE32([hi |-> 65535, lo |-> 65528]),
            <<>>)

\* a skippable chunk whose size field is 2^32 - 16
SkippableBeforeStart ==
    Segment("skippable",
            LZ4G_writeLE32(LZ4G_SKIPPABLE0) \o LZ4G_writeLE32([hi |-> 65535, lo |-> 65520]),
            <<>>)

\* a legacy stream that ends one byte into its first size field: the other
\* three bytes of the field are what in_buff held
LegacyCutInField == Segment("damaged", LegacyBytes(<<>>) \o << 1 >>, <<>>)

\* segments whose compressed payload is damaged: a data byte of a checksummed
\* frame, the literal count of an LZ4 block (in a frame, in a legacy stream),
\* a legacy block cut short, the size of a frame's second block raised from 2
\* to 66, a frame cut inside its second block, a legacy size field too large,
\* a legacy size field cut short
DamagedSegs ==
    { Segment("damaged", Corrupt(FrameBytes(PlainA, DefaultPrefs, 4), 12, 8), PlainA),
      Segment("damaged", Corrupt(FrameBytesLZ4(PlainZ, DefaultPrefs), 12, 32), PlainZ),
      Segment("damaged", Corrupt(LegacyBytes(<< << 3, 0 >>, << 0, 5, 6 >> >>), 16, 64),
              << 3, 0 >>),
      Segment("damaged", Take(LegacyBytes(<< << 3, 0 >>, << 0, 5, 6 >> >>), 17),
              << 3, 0 >>),
      Segment("damaged", Corrupt(FrameBytes(<< 1, 2, 3, 4 >>, DefaultPrefs, 2), 14, 66),
              << 1, 2 >>),
      TruncatedFrame,
      DamagedLegacyLength,
      LegacyCutInField }

GoodSegs == FrameSegs \cup LegacySegs

Segs == GoodSegs \cup SkippableSegs \cup UnknownSegs

\* segments for the files of three
FewSegs ==
    { FrameSeg(PlainA, DefaultPrefs, 4), LegacySeg(<< PlainA >>),
      SkippableSeg(15, << 9, 8, 7 >>), UnknownSeg(<< 1, 2, 3, 4, 5, 6 >>) }

\* a file that ends inside a magic number
ShortFile == << UnknownSeg(<< 4, 34 >>) >>

\* files that end inside a magic number after a skippable chunk
ShortAfterSkip ==
    { << SkippableSeg(0, <<>>), UnknownSeg(Take(<< 4, 34, 77 >>, n)) >> : n \in 1..3 }

\* a skippable chunk of each of the 16 magic numbers, before a frame
SkippableFiles ==
    { << SkippableSeg(n, << 9, 8, 7 >>), FrameSeg(PlainA, DefaultPrefs, 4) >> : n \in 0..15 }

InputFiles ==
    { <<>> } \cup { ShortFile } \cup ShortAfterSkip \cup SkippableFiles
        \cup { << a >> : a \in Segs \cup DamagedSegs }
        \cup { << a, b >> : a \in Segs, b \in Segs }
        \cup { << a, b >> : a \in GoodSegs \cup SkippableSegs, b \in DamagedSegs }
        \cup { << a, b, c >> : a \in FewSegs, b \in FewSegs, c \in FewSegs }


\* the input files of the runs whose end is checked: every segment alone,
\* and after a skippable chunk or another segment
TermFiles ==
    { <<>> } \cup { ShortFile }
        \cup { << a >> : a \in Segs \cup DamagedSegs }
        \cup { << a, b >> : a \in SkippableSegs,
                            b \in FewSegs \cup {LegacyCutInField, DamagedLegacyLength} }
        \cup { << a, b >> : a \in FewSegs, b \in FewSegs }
        \cup { << SkippableSeg(0, <<>>), SkippableSeg(15, << 9, 8, 7 >>), b >> :
                  b \in UnknownSegs \cup {LegacySeg(<< PlainA >>)} }
        \cup { << SkippableBack >>, << SkippableBeforeStart >>, << LegacySeg(<< PlainA >>), SkippableBack >>,
               << SkippableBack, LegacySeg(<< PlainA >>) >> }

(***************************************************************************)
(* The encoder's parameters (lines 160-203).                               *)
(***************************************************************************)
BlockSizeArgs == {3, 4, 5, 8}

\* the ids a caller may hand to the setter: any integer
AnyBlockSizeArgs == -1..9

\* line 163: 64 KB, 256 KB, 1 MB, 4 MB
blockSizeTable == << 65536, 262144, 1048576, 4194304 >>

\* any id stored, the range of line 164 not tested
LZ4G_setBlockSizeIDUnchecked(bsid) ==
    /\ pc = "idle"
    /\ g_blockSizeId' = bsid
    /\ retval' = (IF bsid < minBlockSizeID \/ bsid > maxBlockSizeID
                  THEN -1 ELSE blockSizeTable[bsid - minBlockSizeID + 1])
    /\ UNCHANGED << heap, decoderPrefs, g_blockChecksum, g_streamChecksum, g_blockIndependence,
                    g_contentSizeFlag, archive, encoder, nbCalls, calls, op, pc, segs,
                    streams, filesize, decodedSize, decRes, errchan, history, locals >>

LZ4G_setBlockSizeID(bsid) ==
    /\ pc = "idle"
    /\ IF bsid < minBlockSizeID \/ bsid > maxBlockSizeID
       THEN /\ retval' = -1
            /\ UNCHANGED g_blockSizeId
       ELSE /\ g_blockSizeId' = bsid
            /\ retval' = blockSizeTable[g_blockSizeId' - minBlockSizeID + 1]
    /\ UNCHANGED << heap, decoderPrefs, g_blockChecksum, g_streamChecksum, g_blockIndependence,
                    g_contentSizeFlag, archive, encoder, nbCalls, calls, op, pc, segs,
                    streams, filesize, decodedSize, decRes, errchan, history, locals >>

LZ4G_blockIndependent == 1

LZ4G_setBlockMode(blockMode) ==
    /\ pc = "idle"
    /\ g_blockIndependence' = (IF blockMode = LZ4G_blockIndependent THEN 1 ELSE 0)
    /\ retval' = g_blockIndependence'
    /\ UNCHANGED << heap, decoderPrefs, g_blockSizeId, g_blockChecksum, g_streamChecksum,
                    g_contentSizeFlag, archive, encoder, nbCalls, calls, op, pc, segs,
                    streams, filesize, decodedSize, decRes, errchan, history, locals >>

LZ4G_setBlockChecksumMode(xxhash) ==
    /\ pc = "idle"
    /\ g_blockChecksum' = (IF xxhash # 0 THEN 1 ELSE 0)
    /\ retval' = g_blockChecksum'
    /\ UNCHANGED << heap, decoderPrefs, g_blockSizeId, g_streamChecksum, g_blockIndependence,
                    g_contentSizeFlag, archive, encoder, nbCalls, calls, op, pc, segs,
                    streams, filesize, decodedSize, decRes, errchan, history, locals >>

LZ4G_setStreamChecksumMode(xxhash) ==
    /\ pc = "idle"
    /\ g_streamChecksum' = (IF xxhash # 0 THEN 1 ELSE 0)
    /\ retval' = g_streamChecksum'
    /\ UNCHANGED << heap, decoderPrefs, g_blockSizeId, g_blockChecksum, g_blockIndependence,
                    g_contentSizeFlag, archive, encoder, nbCalls, calls, op, pc, segs,
                    streams, filesize, decodedSize, decRes, errchan, history, locals >>

LZ4G_setContentSize(enable) ==
    /\ pc = "idle"
    /\ g_contentSizeFlag' = (IF enable # 0 THEN 1 ELSE 0)
    /\ retval' = g_contentSizeFlag'
    /\ UNCHANGED << heap, decoderPrefs, g_blockSizeId, g_blockChecksum, g_streamChecksum,
                    g_blockIndependence, archive, encoder, nbCalls, calls, op, pc, segs,
                    streams, filesize, decodedSize, decRes, errchan, history, locals >>

(***************************************************************************)
(* LZ4G_compressFramedFileStream (lines 515-604).                          *)
(***************************************************************************)
LevelArgs == {0, 9}

\* line 535, in the scaled sizes of the model
ScaledBlockSize(id) == LZ4G_GetBlockSize_FromBlockId(id) \div BlockScale

\* lines 531-547: the preferences handed to LZ4F_compressBegin
CompressPrefs(compressionLevel) ==
    [autoFlush |-> 1,
     compressionLevel |-> compressionLevel,
     blockMode |-> g_blockIndependence,
     blockSizeID |-> g_blockSizeId,
     contentChecksumFlag |-> g_streamChecksum,
     blockChecksumFlag |-> 0,
     contentSize |-> 0]

\* the call, with finput holding S
CompressCall(S, compressionLevel, capacity) ==
    /\ pc = "idle"
    /\ calls < MaxCalls
    /\ calls' = calls + 1
    /\ op' = "compress"
    /\ segs' = <<>>
    /\ fin' = S /\ inPos' = 0
    /\ fout' = <<>> /\ outPos' = 0
    /\ retval' = 0 /\ filesize' = 0 /\ decodedSize' = 0 /\ decRes' = 0
    /\ errstring' = <<>> /\ nerrbytes' = capacity /\ errnumber' = 0
    /\ prefs' = CompressPrefs(compressionLevel)
    /\ pc' = "c_begin"
    /\ heap' = EncoderMemory
    /\ UNCHANGED << decoderPrefs, encoderPrefs, archive, cctx, block, elog, nbCalls, history,
                    locals >>

\* a call made on the compression context: what it was given and what it
\* produced
ContextCall(call, src, out) == [call |-> call, src |-> src, out |-> out]

\* the loop entered after a read that returned nothing
MoreInputOrNone(readSize) == readSize >= 0

\* line 567: while (readSize>0)
MoreInput(readSize) == readSize > 0

\* lines 555-564: the header is written and the first block read
LZ4G_compress_begin ==
    /\ pc = "c_begin"
    /\ LET header == LZ4F_compressBegin(prefs)
       IN  /\ fout' = fwrite(fout, outPos, header)
           /\ outPos' = outPos + Len(header)
    /\ cctx' = [sum |-> 0, n |-> 0]
    /\ elog' = Append(elog, ContextCall("begin", <<>>, LZ4F_compressBegin(prefs)))
    /\ block' = fread(fin, inPos, ScaledBlockSize(g_blockSizeId))
    /\ inPos' = inPos + Len(block')
    /\ pc' = "c_loop"
    /\ UNCHANGED << heap, decoderPrefs, encoderPrefs, archive, prefs, nbCalls, calls, op, segs, fin,
                    driver, history, locals >>

\* lines 567-583: one turn of the main loop
LZ4G_compress_update ==
    /\ pc = "c_loop"
    /\ MoreInput(Len(block))
    /\ LET chunkOut == LZ4F_compressUpdate(block)
       IN  /\ fout' = fwrite(fout, outPos, chunkOut)
           /\ outPos' = outPos + Len(chunkOut)
    /\ cctx' = [sum |-> cctx.sum + SumSeq(block), n |-> cctx.n + Len(block)]
    /\ elog' = Append(elog, ContextCall("update", block, LZ4F_compressUpdate(block)))
    /\ block' = fread(fin, inPos, ScaledBlockSize(g_blockSizeId))
    /\ inPos' = inPos + Len(block')
    /\ UNCHANGED << heap, decoderPrefs, encoderPrefs, archive, prefs, nbCalls, calls, op, pc, segs,
                    fin, driver, history, locals >>

\* lines 585-603: the end mark is written and the call returns
LZ4G_compress_end ==
    /\ pc = "c_loop"
    /\ ~MoreInput(Len(block))
    /\ LET endMark == LZ4F_compressEnd(prefs, cctx.sum, cctx.n)
       IN  /\ fout' = fwrite(fout, outPos, endMark)
           /\ outPos' = outPos + Len(endMark)
    /\ elog' = Append(elog, ContextCall("end", <<>>, LZ4F_compressEnd(prefs, cctx.sum, cctx.n)))
    /\ retval' = 0
    /\ pc' = "done"
    /\ heap' = heap \ EncoderMemory
    /\ UNCHANGED << decoderPrefs, encoderPrefs, archive, prefs, cctx, block, nbCalls, calls,
                    op, segs, fin, inPos, filesize, decodedSize, decRes, errchan, history,
                    locals >>

\* the data given to the encoder
PlainFiles ==
    { <<>>, << 7 >>, << 7, 8 >>, << 1, 2, 3, 4 >>, PlainB, PlainZ }

(***************************************************************************)
(* Specifications.  Spec is the whole program.  SpecDec is the program     *)
(* whose caller only decompresses, with the two parameters of the decoder; *)
(* SpecEnc is the program whose caller compresses and decompresses what it *)
(* compressed, with the sparse mode and the parameters that reach the      *)
(* frame.  SpecSparse is the write of a frame's decoded data in sparse     *)
(* mode, whatever the data and however the decoder cuts it into blocks.    *)
(***************************************************************************)
FramedDecoder ==
    \/ LZ4G_selectDecoder
    \/ LZ4G_decodeLZ4S_init
    \/ LZ4G_decodeLZ4S_read
    \/ LZ4G_decodeLZ4S_decode
    \/ LZ4G_decodeLZ4S_end
    \/ DecompressLoop

OtherDecoders ==
    \/ LZ4G_decodeLegacyStream
    \/ LZ4G_passThrough_init
    \/ LZ4G_passThrough_loop

Encoder ==
    \/ LZ4G_compress_begin
    \/ LZ4G_compress_update
    \/ LZ4G_compress_end

\* the parameters that reach the frame the encoder writes
FrameSetters ==
    \/ \E bsid \in BlockSizeArgs : LZ4G_setBlockSizeID(bsid)
    \/ \E blockMode \in SetterArgs : LZ4G_setBlockMode(blockMode)
    \/ \E xxhash \in SetterArgs : LZ4G_setStreamChecksumMode(xxhash)

OtherSetters ==
    \/ \E xxhash \in SetterArgs : LZ4G_setBlockChecksumMode(xxhash)
    \/ \E enable \in SetterArgs : LZ4G_setContentSize(enable)

NextDec ==
    \/ \E yes \in SetterArgs : LZ4G_setOverwrite(yes)
    \/ \E file \in InputFiles, capacity \in CapacityArgs : DecompressCall(file, capacity)
    \/ FramedDecoder
    \/ OtherDecoders
    \/ CallReturns

\* a process that calls decompress once
NextTerm ==
    \/ \E yes \in SetterArgs : LZ4G_setOverwrite(yes)
    \/ \E file \in TermFiles, capacity \in CapacityArgs :
          nbCalls = 0 /\ DecompressCall(file, capacity)
    \/ FramedDecoder
    \/ OtherDecoders
    \/ CallReturns

NextEnc ==
    \/ \E enable \in SetterArgs : LZ4G_setSparseFile(enable)
    \/ FrameSetters
    \/ \E S \in PlainFiles, level \in LevelArgs, capacity \in CapacityArgs :
          CompressCall(S, level, capacity)
    \/ (archive # <<>> /\ \E capacity \in CapacityArgs : DecompressCall(archive, capacity))
    \/ Encoder
    \/ FramedDecoder
    \/ CallReturns

\* the data a frame may hold: every sequence of up to MaxDecoded bytes that
\* are zero or not
DecodedData == UNION { [1..n -> {0, 7}] : n \in 0..MaxDecoded }

\* LZ4G_decodeLZ4S of the first call of a process, sparse mode on, after its
\* init (line 314), the frame it reads holding data
InitSparse ==
    /\ g_overwrite = 1
    /\ g_sparseFileSupport = 1
    /\ g_blockSizeId = LZ4G_BLOCKSIZEID_DEFAULT
    /\ g_blockChecksum = 0
    /\ g_streamChecksum = 1
    /\ g_blockIndependence = 1
    /\ g_contentSizeFlag = 0
    /\ archive = <<>>
    /\ NoEncoder
    /\ nbCalls = 1
    /\ calls = 1
    /\ op = "decompress"
    /\ \E data \in DecodedData :
          /\ segs = << Segment("frame", <<>>, data) >>
          /\ pc = (IF data = <<>> THEN "lz4s_end" ELSE "lz4s_write")
    /\ fin = <<>> /\ inPos = 0
    /\ fout = <<>> /\ outPos = 0
    /\ retval = 0 /\ filesize = 0 /\ decodedSize = 0 /\ decRes = 0
    /\ errstring = <<>> /\ nerrbytes = 0 /\ errnumber = 0
    /\ firstCall = 1 /\ lastKind = "frame" /\ nDecoded = 0
    /\ startPos = 0 /\ depth = 0
    /\ NoLocals
    /\ heap = DecoderMemory

NextSparse ==
    \/ LZ4G_decodeLZ4S_write
    \/ LZ4G_decodeLZ4S_end

\* the program whose caller sets the encoder's parameters and compresses
NextPrefs ==
    \/ \E bsid \in AnyBlockSizeArgs : LZ4G_setBlockSizeID(bsid)
    \/ \E blockMode \in SetterArgs : LZ4G_setBlockMode(blockMode)
    \/ \E xxhash \in SetterArgs : LZ4G_setStreamChecksumMode(xxhash)
    \/ OtherSetters
    \/ \E level \in LevelArgs, capacity \in CapacityArgs :
          CompressCall(<< 7, 8 >>, level, capacity)
    \/ Encoder
    \/ CallReturns

Next == NextDec \/ NextEnc \/ OtherSetters

Spec == Init /\ [][Next]_vars

SpecDec == Init /\ [][NextDec]_vars

SpecEnc == Init /\ [][NextEnc]_vars

SpecSparse == InitSparse /\ [][NextSparse]_vars

SpecPrefs == Init /\ [][NextPrefs]_vars

\* a call of decompress, once made, runs: each step of the dispatcher, of a
\* decoder or of the loop that can be taken is taken
SpecTerm == Init /\ [][NextTerm]_vars /\ WF_vars(FramedDecoder \/ OtherDecoders)

(***************************************************************************)
(* Properties.                                                             *)
(***************************************************************************)
IsPrefix(a, b) == Len(a) <= Len(b) /\ a = Take(b, Len(a))

\* the input of the call in progress starts with 4 bytes that are no magic
\* number the dispatcher knows
FirstUnknown ==
    Len(fin) >= MAGICNUMBER_SIZE /\ DispatchKind(Take(fin, MAGICNUMBER_SIZE)) = "unknown"

\* the call in progress decompresses the file the last compress call wrote
DecodesArchive == op = "decompress" /\ archive # <<>> /\ segs = archive

\* C1: with sparse mode off, decompress of the output of compress(S) returns
\* status 0 and writes exactly S, whatever S and the encoder's parameters.
C1_RoundTrip ==
    (pc = "done" /\ DecodesArchive /\ g_sparseFileSupport = 0)
        => /\ retval = 0
           /\ fout = archive[1].plain
           /\ filesize = Len(archive[1].plain)

\* S has zero runs and is longer than 5 blocks of the smallest block size
C1_Witness ==
    /\ pc = "done" /\ DecodesArchive /\ g_sparseFileSupport = 0
    /\ archive[1].plain = PlainB
    /\ archive[1].bytes = FrameBytes(PlainB, [DefaultPrefs EXCEPT !.blockSizeID = minBlockSizeID],
                                     ScaledBlockSize(minBlockSizeID))
    /\ retval = 0
    /\ fout = PlainB

\* C2: whatever the decoded data and however it is cut into decoded blocks,
\* the output written through the sparse cursor, read back with the spans
\* never written reading as zero, is the data: what sparse mode off writes.
C2_SparseReconstruction ==
    (pc = "driver" /\ g_sparseFileSupport # 0 /\ decRes = 0)
        => /\ ReadBack(fout) = FilePlain(segs)
           /\ ReadBack(fout) = PlainWrite([out |-> <<>>, pos |-> 0, skips |-> 0, seek |-> 0],
                                          FilePlain(segs)).out
           /\ decodedSize = Len(FilePlain(segs))

\* a zero run that starts inside a decoded block whose size is no multiple of
\* the word, goes over a block boundary and over segments, and ends the data
C2_Witness ==
    /\ pc = "driver" /\ g_sparseFileSupport # 0
    /\ FilePlain(segs) = << 7, 7, 7, 7, 7, 0, 0, 0, 0 >>
    /\ fout = << 7, 7, 7, 7, 7, Hole, Hole, Hole, 0 >>

\* C3: an input made of several framed or legacy segments, in any order,
\* decodes with status 0 to the concatenation of their contents, and the
\* running total is the sum of their sizes.
C3_Concatenation ==
    (pc = "done" /\ op = "decompress" /\ Len(segs) >= 2
        /\ \A i \in 1..Len(segs) : segs[i].kind \in {"frame", "legacy"})
        => /\ retval = 0
           /\ fout = FilePlain(segs)
           /\ filesize = Len(FilePlain(segs))

\* the call in progress reads a skippable chunk followed by a frame
SkippableThenFrame ==
    /\ op = "decompress" /\ Len(segs) = 2
    /\ segs[1].kind = "skippable" /\ segs[2].kind = "frame"

C5_PassThrough ==
    (pc = "done" /\ op = "decompress" /\ g_overwrite # 0 /\ FirstUnknown)
        => /\ retval = 0
           /\ fout = fin
           /\ filesize = Len(fin)

\* C6: with overwrite disabled, an input that starts with an unknown magic
\* number makes decompress return a non-zero status with nothing written.
C6_HeaderError ==
    (pc = "done" /\ op = "decompress" /\ g_overwrite = 0 /\ FirstUnknown)
        => /\ retval # 0
           /\ fout = <<>>

\* C7: in every call of decompress, the first dispatch, when it reads an
\* unknown magic number, never reports end of input.
C7_PerSession ==
    (pc = "driver" /\ lastKind = "unknown" /\ nbCalls = firstCall)
        => ~(decRes = 0 /\ decodedSize = ENDOFSTREAM)

\* the segment of the input that starts at byte p, 0 when none does
SegmentAt(p) ==
    IF \E k \in 1..Len(segs) : Len(FileBytes(Take(segs, k - 1))) = p
    THEN CHOOSE k \in 1..Len(segs) : Len(FileBytes(Take(segs, k - 1))) = p
    ELSE 0

\* the number of segments that begin before position p of the input
SegmentsBefore(p) ==
    Cardinality({ k \in 1..Len(segs) : Len(FileBytes(Take(segs, k - 1))) < p })

\* C8: once a segment has been decoded in this call, a dispatch that reads an
\* unknown magic number ends the call with status 0, the output being the
\* data decoded from the segments that begin before that magic number, and
\* nothing of the bytes from it on; the pass-through never starts then.
C8_TrailingGarbage ==
    /\ pc \in {"pass_init", "pass_loop"} => nDecoded = 0
    /\ (pc = "done" /\ op = "decompress" /\ lastKind = "unknown" /\ nDecoded >= 1)
          => /\ retval = 0
             /\ SegmentsBefore(inPos - MAGICNUMBER_SIZE) >= 1
             /\ fout = FilePlain(Take(segs, SegmentsBefore(inPos - MAGICNUMBER_SIZE)))
             /\ filesize = Len(fout)

C8_Witness ==
    /\ pc = "done" /\ lastKind = "unknown" /\ nDecoded = 1
    /\ segs = << LegacySeg(<< PlainA >>), UnknownSeg(<< 1, 2, 3, 4, 5, 6 >>) >>
    /\ retval = 0
    /\ fout = PlainA

\* the legacy decoder is about to read a whole size field that is larger
\* than the bound
AtOversizedField ==
    /\ pc = "legacy"
    /\ Len(fread(fin, inPos, 4)) = 4
    /\ LegacyOversized(LZ4G_readLE32(fread(fin, inPos, 4)))

\* C9: the legacy decoder that reads a size field larger than the bound
\* returns without error the count decoded so far and leaves the cursor at
\* the first byte of the field; a legacy segment followed by a valid segment
\* decodes with status 0 to the data of both.
C9_LegacyRewind ==
    /\ [][AtOversizedField
             => /\ pc' = "driver" /\ decRes' = 0 /\ decodedSize' = dsize
                /\ inPos' = inPos
                /\ fout' = fout]_vars
    /\ []((pc = "done" /\ op = "decompress" /\ Len(segs) = 2 /\ segs[1].kind = "legacy"
             /\ segs[2].kind \in {"frame", "legacy"})
             => (retval = 0 /\ fout = FilePlain(segs)))

C9_Witness ==
    /\ pc = "done"
    /\ segs = << LegacySeg(<< << 3, 0 >>, << 0, 5, 6 >> >>), FrameSeg(PlainA, DefaultPrefs, 4) >>
    /\ retval = 0
    /\ fout = << 3, 0, 0, 5, 6 >> \o PlainA

\* C10: an input with a damaged segment never makes decompress return 0.
C10_NeverSilent ==
    (pc = "done" /\ op = "decompress" /\ \E i \in 1..Len(segs) : segs[i].kind = "damaged")
        => retval # 0

\* C11: a call that fails returns a positive status equal to the number of
\* characters it stored in the caller's buffer, which then holds a non-empty
\* text; a call that succeeds returns 0.
C11_ErrorChannel ==
    pc = "done"
        => /\ errnumber = 0 => retval = 0
           /\ errnumber # 0
                 => (retval > 0 /\ retval = Len(errstring) /\ errstring # <<>>)

\* the dispatcher is about to read a header of which n bytes are left
AtHeaderRead(n) == pc = "select" /\ Len(fread(fin, inPos, MAGICNUMBER_SIZE)) = n

\* C12: a dispatch whose header read returns no byte reports the end of
\* input with status 0 and writes nothing; one whose header read returns 1,
\* 2 or 3 bytes returns a non-zero status (error 40), whatever the overwrite
\* setting and the invocation.
C12_HeaderRead ==
    [][/\ AtHeaderRead(0)
             => /\ pc' = "driver" /\ decRes' = 0 /\ decodedSize' = ENDOFSTREAM
                /\ errstring' = errstring
                /\ fout' = fout
       /\ \A n \in 1..(MAGICNUMBER_SIZE - 1) :
             AtHeaderRead(n)
                => /\ pc' = "driver" /\ decRes' # 0 /\ errnumber' = 40
                   /\ fout' = fout]_vars

\* 3 bytes left after a skippable chunk, overwrite enabled: not the first
\* invocation
C12_Witness ==
    /\ pc = "done" /\ lastKind = "short"
    /\ segs = << SkippableSeg(0, <<>>), UnknownSeg(<< 4, 34, 77 >>) >>
    /\ g_overwrite = 1
    /\ nbCalls > firstCall
    /\ errnumber = 40
    /\ retval # 0

\* C13: when the framed decoder or the framed encoder has returned, by
\* normal completion or by an error return, the context and the two buffers
\* it allocated are released.
C13_Released ==
    /\ (pc = "driver" /\ lastKind = "frame") => heap \cap DecoderMemory = {}
    /\ (pc = "done" /\ op = "compress") => heap \cap EncoderMemory = {}

\* what the logged context calls were given, and what they produced, in order
RECURSIVE LogSrc(_)
LogSrc(log) == IF log = <<>> THEN <<>> ELSE log[1].src \o LogSrc(Tail(log))

RECURSIVE LogOut(_)
LogOut(log) == IF log = <<>> THEN <<>> ELSE log[1].out \o LogOut(Tail(log))

\* C14: the compression context sees one begin, then one update per
\* non-empty block read, in input order, then one end; no update is given an
\* empty block; the output is at every moment what the calls made so far
\* produced, in order: header, chunks, end mark.
C14_PhaseOrder ==
    op = "compress"
        => /\ pc = "c_begin" <=> elog = <<>>
           /\ \A i \in 1..Len(elog) :
                 /\ elog[i].call = "begin" <=> i = 1
                 /\ elog[i].call = "end" <=> (i = Len(elog) /\ pc = "done")
                 /\ elog[i].call = "update"
                       => /\ elog[i].src # <<>>
                          /\ Len(elog[i].src) = ScaledBlockSize(g_blockSizeId)
                                \/ (i = Len(elog) - 1 /\ pc = "done")
                                \/ (i = Len(elog) /\ Len(block) = 0)
           /\ LogSrc(elog) \o block = Take(fin, inPos)
           /\ fout = LogOut(elog)
           /\ pc = "done" => (LogSrc(elog) = fin /\ retval = 0)

\* 11 bytes in blocks of 2: a begin, 6 updates, an end
C14_Witness ==
    /\ op = "compress" /\ pc = "done"
    /\ fin = PlainB
    /\ ScaledBlockSize(g_blockSizeId) = 2
    /\ Len(elog) = 8
    /\ elog[7].src = << 2 >>

\* C15: the preferences handed to the context's begin are the global
\* parameters as they stand at the entry of compress: block size class, block
\* independence, block checksum and stream checksum.
C15_EncoderConfiguration ==
    (op = "compress" /\ pc # "idle")
        => /\ prefs.blockSizeID = g_blockSizeId
           /\ prefs.blockMode = g_blockIndependence
           /\ prefs.contentChecksumFlag = g_streamChecksum
           /\ prefs.blockChecksumFlag = g_blockChecksum

\* the framed decoder is at work on a frame of the input
InFramedDecoder == op = "decompress" /\ pc \in {"lz4s_read", "lz4s_decode", "lz4s_end"}

\* the input position up to which the bytes of the input have been consumed
ConsumedUpTo == inPos - Len(chunk) + pos

\* C16: in the framed decoder pos never exceeds the chunk's length, a chunk
\* is read only when the one before is consumed entirely, the bytes the
\* context consumed after the 4 re-fed magic bytes are the bytes of the
\* input that follow the magic number up to the consumed position, in order,
\* each invocation consuming a prefix of the chunk's bytes from pos on, and
\* the total reported is the number of bytes the invocations produced.
C16_ChunkConsumption ==
    /\ [](InFramedDecoder
            => /\ pos <= Len(chunk)
               /\ pc = "lz4s_read" => pos = Len(chunk)
               /\ pc = "lz4s_decode" => pos < Len(chunk)
               /\ Len(fed) >= MAGICNUMBER_SIZE
               /\ Take(fed, MAGICNUMBER_SIZE) = LZ4G_writeLE32(LZ4G_MAGICNUMBER)
               /\ LET n == Len(fed) - MAGICNUMBER_SIZE
                      first == ConsumedUpTo - n
                  IN  /\ first >= MAGICNUMBER_SIZE
                      /\ SubSeq(fin, first - MAGICNUMBER_SIZE + 1, first)
                            = LZ4G_writeLE32(LZ4G_MAGICNUMBER)
                      /\ Drop(fed, MAGICNUMBER_SIZE) = SubSeq(fin, first + 1, ConsumedUpTo)
               /\ dsize = Len(decoded))
    /\ [][/\ (pc = "lz4s_decode" /\ pc' # "driver")
               => \E k \in 0..(Len(chunk) - pos) :
                     /\ fed' = fed \o SubSeq(chunk, pos + 1, pos + k)
                     /\ pos' = pos + k
                     /\ chunk' = chunk
                     /\ dsize' - dsize = Len(decoded') - Len(decoded)
          /\ (pc = "lz4s_end" /\ pc' = "driver")
               => (decRes' = 0 /\ decodedSize' = Len(decoded) /\ pos = Len(chunk))]_vars

\* a second chunk of a frame is part consumed: the invocation before took
\* some of its bytes and left others
C16_Witness ==
    /\ InFramedDecoder /\ pc = "lz4s_decode"
    /\ inPos > MAGICNUMBER_SIZE + inBuffSize
    /\ 0 < pos /\ pos < Len(chunk)
    /\ Len(decoded) > 0

\* the decoded block the step writes
StepBlock == SubSeq(decoded', Len(decoded) + 1, Len(decoded'))

\* C17: in sparse mode the output position plus the pending skip is the
\* number of decoded bytes processed: between decoded blocks, and after
\* every scan segment of a block; on the decoder's return the output position
\* is the total decoded, a pending skip being realised by a seek of one less
\* and one written zero byte, which ends the file.
C17_SparseAccounting ==
    /\ []((g_sparseFileSupport # 0 /\ pc \in {"lz4s_write", "lz4s_end"})
              => outPos + storedSkips = Len(decoded))
    /\ [][(g_sparseFileSupport # 0 /\ pc = "lz4s_write")
              => \A k \in 0..(Len(StepBlock) \div sizeT) :
                    (k % bs0T = 0 \/ k = Len(StepBlock) \div sizeT)
                       => LET st == [out |-> fout, pos |-> outPos, skips |-> storedSkips,
                                     seek |-> maxSeek]
                              st1 == SparseSegments(st, StepBlock, 0, k)
                          IN  st1.pos + st1.skips = Len(decoded) + k * sizeT]_vars
    /\ [][(g_sparseFileSupport # 0 /\ pc = "lz4s_end")
              => /\ pc' = "driver" /\ decRes' = 0
                 /\ outPos' = Len(decoded)
                 /\ decodedSize' = Len(decoded)
                 /\ storedSkips > 0
                       => /\ Len(fout') = outPos'
                          /\ fout'[outPos'] = 0
                          /\ \A i \in (outPos + 1)..(outPos' - 1) : fout'[i] = Hole
                          /\ Take(fout', Len(fout)) = fout
                          /\ storedSkips' = storedSkips - 1]_vars

\* all-zero data as long as the inputs go, decoded: nothing but the last byte
\* is written
C17_Witness ==
    /\ pc = "driver" /\ g_sparseFileSupport # 0 /\ decRes = 0
    /\ Len(decoded) = MaxDecoded
    /\ \A i \in 1..Len(decoded) : decoded[i] = 0
    /\ outPos = MaxDecoded
    /\ fout = [i \in 1..MaxDecoded |-> IF i = MaxDecoded THEN 0 ELSE Hole]

\* C18: every offset the sparse writer hands to a seek of the output is at
\* most the 1 GB ceiling, and the pending skip stays below 2^32, which is 4 GB.
C18_SeekCeiling ==
    g_sparseFileSupport # 0 => (maxSeek <= OneGB /\ storedSkips < 4 * OneGB)

\* C19: the stored block size id is always one of 4..7, 7 at the start; the
\* setter called with an id outside 4..7 returns -1 and stores nothing;
\* called with an id of 4..7 it stores the id and returns 64 KB, 256 KB, 1 MB
\* or 4 MB, the block size the encoder computes from the id.
C19_BlockSizeClass ==
    /\ [](g_blockSizeId \in minBlockSizeID..maxBlockSizeID)
    /\ g_blockSizeId = 7
    /\ [][\A bsid \in AnyBlockSizeArgs :
             LZ4G_setBlockSizeID(bsid)
                => /\ bsid \notin 4..7 => (retval' = -1 /\ g_blockSizeId' = g_blockSizeId)
                   /\ bsid \in 4..7
                         => /\ g_blockSizeId' = bsid
                            /\ bsid = 4 => retval' = 64 * 1024
                            /\ bsid = 5 => retval' = 256 * 1024
                            /\ bsid = 6 => retval' = 1024 * 1024
                            /\ bsid = 7 => retval' = 4 * 1024 * 1024
                            /\ retval' = LZ4G_GetBlockSize_FromBlockId(bsid)]_vars

\* the setter has stored 6 and then refused an id
C19_Witness == pc = "idle" /\ retval = -1 /\ g_blockSizeId = 6

\* the input has ended while the decompression context is inside a frame
EndsInsideFrame == op = "decompress" /\ pc = "lz4s_end" /\ ctx # LZ4F_newContext

\* C20: when the input ends inside a frame the framed decoder returns 0 and
\* the count of the bytes decoded so far, and decompress of an input that
\* ends with a frame cut inside its second block returns 0, the output being
\* what was decoded up to the cut.
C20_TruncatedFrame ==
    /\ [][EndsInsideFrame
             => /\ pc' = "driver" /\ decRes' = 0 /\ errnumber' = 0
                /\ decodedSize' = Len(decoded)
                /\ dsize = Len(decoded)]_vars
    /\ []((pc = "done" /\ op = "decompress" /\ Len(segs) >= 1
              /\ segs[Len(segs)] = TruncatedFrame)
             => /\ retval = 0
                /\ fout = FilePlain(segs)
                /\ filesize = Len(FilePlain(segs)))

\* the frame of 01 02 03 04 in blocks of 2 cut inside its second block, alone
C20_Witness ==
    /\ pc = "done" /\ op = "decompress"
    /\ segs = << TruncatedFrame >>
    /\ retval = 0
    /\ fout = << 1, 2, 3 >>
    /\ filesize = 3

\* the input ends with the legacy stream whose second size field is too
\* large, after legacy streams and skippable chunks only
EndsWithDamagedLength ==
    /\ op = "decompress" /\ Len(segs) >= 1
    /\ segs[Len(segs)] = DamagedLegacyLength
    /\ \A i \in 1..(Len(segs) - 1) : segs[i].kind \in {"legacy", "skippable"}

\* the position of the size field that is too large
DamagedField == Len(fin) - Len(DamagedLegacyLength.bytes) + Len(LegacyBytes(<< << 3, 0 >> >>))

\* C21: a legacy stream with a size field larger than the codec's bound that
\* is no magic number: the legacy decoder returns 0 with the cursor back on
\* the field, the next dispatch, which is never the first of the process,
\* reads the field as an unknown magic number and reports the end of the
\* input, and decompress returns 0, the output holding the blocks before the
\* field and the input after it never read.
C21_DamagedLegacyLength ==
    /\ [][(EndsWithDamagedLength /\ pc = "legacy" /\ inPos = DamagedField)
             => (pc' = "driver" /\ decRes' = 0 /\ inPos' = DamagedField
                 /\ decodedSize' = 2 /\ fout' = fout)]_vars
    /\ [][(EndsWithDamagedLength /\ pc = "select" /\ inPos = DamagedField)
             => (pc' = "driver" /\ decRes' = 0 /\ decodedSize' = ENDOFSTREAM
                 /\ lastKind' = "unknown" /\ nbCalls' > 1
                 /\ fout' = fout /\ inPos' = DamagedField + 4)]_vars
    /\ []((EndsWithDamagedLength /\ pc = "done")
             => /\ retval = 0 /\ errnumber = 0
                /\ fout = FilePlain(segs)
                /\ filesize = Len(FilePlain(segs))
                /\ lastKind = "unknown"
                /\ inPos = DamagedField + 4 /\ inPos < Len(fin))

\* the damaged legacy stream alone, first call of the process: 03 00 is
\* written and the call returns 0 with input left
C21_Witness ==
    /\ pc = "done" /\ op = "decompress"
    /\ segs = << DamagedLegacyLength >>
    /\ nbCalls = 2
    /\ retval = 0
    /\ fout = << 3, 0 >>
    /\ inPos < Len(fin)

\* the number of skippable chunks the input of the call starts with
RECURSIVE LeadingSkippable(_)
LeadingSkippable(ss) ==
    IF ss = <<>> \/ ss[1].kind # "skippable" THEN 0 ELSE 1 + LeadingSkippable(Tail(ss))

\* the input of the call is skippable chunks, one at least, and then bytes
\* that start with an unknown magic number
SkippableThenUnknown ==
    /\ op = "decompress"
    /\ LeadingSkippable(segs) >= 1
    /\ LeadingSkippable(segs) < Len(segs)
    /\ segs[LeadingSkippable(segs) + 1].kind = "unknown"
    /\ Len(segs[LeadingSkippable(segs) + 1].bytes) >= MAGICNUMBER_SIZE

\* C22: every dispatch, the one made after a skippable chunk too, adds one to
\* the dispatcher's counter; so a call whose input is skippable chunks and
\* then an unknown magic number returns 0 with nothing written and nothing
\* decoded, overwrite enabled or not: the pass-through and the header error
\* are never reached.
C22_SkippableCounts ==
    /\ [][pc = "select" => nbCalls' = nbCalls + 1]_vars
    /\ [][(pc = "select" /\ pc' = "select") => lastKind' = "skippable"]_vars
    /\ [](SkippableThenUnknown
             => /\ pc \notin {"pass_init", "pass_loop"}
                /\ errnumber # 44
                /\ fout = <<>>
                /\ (pc = "driver" /\ lastKind = "unknown")
                      => (decRes = 0 /\ decodedSize = ENDOFSTREAM
                          /\ nbCalls - firstCall = LeadingSkippable(segs))
                /\ pc = "done"
                      => (retval = 0 /\ lastKind = "unknown" /\ filesize = 0
                          /\ nDecoded = 0))

\* two skippable chunks and then unknown bytes, first call of the process,
\* overwrite enabled: the call returns 0 and the output is empty
C22_Witness ==
    /\ pc = "done" /\ op = "decompress"
    /\ segs = << SkippableSeg(15, << 9, 8, 7 >>), SkippableSeg(15, << 9, 8, 7 >>),
                 UnknownSeg(<< 1, 2, 3, 4, 5, 6 >>) >>
    /\ g_overwrite = 1
    /\ firstCall = 1 /\ nbCalls = 3
    /\ retval = 0 /\ fout = <<>>

\* the framed decoder returns to the loop of decompress with status 0
FramedDecoderSucceeds ==
    pc \in {"lz4s_init", "lz4s_read", "lz4s_decode", "lz4s_end"} /\ pc' = "driver" /\ decRes' = 0

\* C23: the framed decoder returns 0 only after a read of the input returned
\* nothing, the input cursor at the end of the input and every byte that
\* followed the magic number, the bytes after the first frame too, consumed
\* by its one context, in order; the dispatch that follows then reads nothing
\* and reports end of input.
C23_ConsumesToEnd ==
    /\ [][(op = "decompress" /\ FramedDecoderSucceeds)
             => /\ pc = "lz4s_end"
                /\ chunk = <<>>
                /\ inPos = Len(fin)
                /\ inPos' = Len(fin)
                /\ Len(fed) >= MAGICNUMBER_SIZE
                /\ LET n == Len(fed) - MAGICNUMBER_SIZE
                   IN  /\ Drop(fed, MAGICNUMBER_SIZE) = SubSeq(fin, Len(fin) - n + 1, Len(fin))
                       /\ SubSeq(fin, Len(fin) - n - MAGICNUMBER_SIZE + 1, Len(fin) - n)
                             = LZ4G_writeLE32(LZ4G_MAGICNUMBER)]_vars
    /\ [][(op = "decompress" /\ pc = "select" /\ lastKind = "frame")
             => /\ Len(fread(fin, inPos, MAGICNUMBER_SIZE)) = 0
                /\ pc' = "driver" /\ lastKind' = "eof"
                /\ decRes' = 0 /\ decodedSize' = ENDOFSTREAM
                /\ fout' = fout]_vars

\* two frames one after the other: one call of the framed decoder decodes
\* both, and the dispatch after it finds the input at its end
C23_Witness ==
    /\ pc = "done" /\ op = "decompress"
    /\ segs = << FrameSeg(PlainA, DefaultPrefs, 4), FrameSeg(PlainA, DefaultPrefs, 4) >>
    /\ retval = 0
    /\ nDecoded = 1
    /\ lastKind = "eof"
    /\ fout = PlainA \o PlainA

\* the number of skippable chunks among the segments of the input
RECURSIVE SkippableChunks(_)
SkippableChunks(ss) ==
    IF ss = <<>> THEN 0
    ELSE (IF ss[1].kind = "skippable" THEN 1 ELSE 0) + SkippableChunks(Tail(ss))

\* C24: every call of decompress returns.  A dispatcher invocation that comes
\* back to the loop has reported end of input, or an error, or has left the
\* input cursor beyond the position it started at, the 4 bytes a legacy
\* decoder gives back counted; each call the dispatcher makes of itself
\* starts beyond the one before, and there are never more of them than the
\* input has skippable chunks.
C24_Termination ==
    /\ [](pc = "driver"
            => (decRes # 0 \/ decodedSize = ENDOFSTREAM \/ inPos > startPos))
    /\ [][(pc = "select" /\ pc' = "select") => (inPos' > inPos /\ depth' = depth + 1)]_vars
    /\ [][(pc = "driver" /\ pc' = "select") => (inPos > startPos /\ depth' = 0)]_vars
    /\ [](op = "decompress" => depth <= SkippableChunks(segs))
    /\ (op = "decompress") ~> (pc = "done")

====
